---- MODULE Spec2Model ----
(***************************************************************************)
(* Model of DefaultElectronMainApplicationContribution                     *)
(* (packages/core/src/electron-main/electron-main-application-             *)
(* contribution.ts): the backend handshake started by ready(), the windows *)
(* made by createNewWindow(), the persistence of their geometry under the *)
(* key 'windowstate', within a run and from one run to the next, and the   *)
(* relay of keyboard-layout changes to the windows.                        *)
(*                                                                         *)
(* Electron, Node and the storage service are the environment.  What the   *)
(* model assumes of them is stated where it is used.                       *)
(***************************************************************************)
EXTENDS Integers, Sequences, FiniteSets, TLC

VARIABLES
    phase,      \* "bootstrapping" (before 'ready'), "running", "exited"
    isQuitting, \* app.quit() was called and the windows are being closed
    exitCode,   \* NoExit until the process ends, then its exit status
    devMode,    \* const devMode (line 80)
    promise,    \* require(this.mainPath): "none", "pending", "fulfilled", "rejected"
    cp,         \* the forked child (line 99): forked, pid, alive, sent
    kills,      \* the arguments of the calls process.kill(cp.pid), in order
    reported,   \* the endpoint values the backend reported, in order
    win,        \* the BrowserWindows, by number; 1 is mainWindow
    store,      \* the value the storage service holds under 'windowstate'
    storeUp,    \* the storage service can write: set() does not throw
    fatal,      \* history: "" until the backend signals an error, then whether
                \* that was at "startup" (nothing reported yet) or "late"
    backends,   \* the number of backends started: fork() and require() calls
    keymap,     \* the keyboard layout and the keyboardLayoutChanged messages sent
    probe,      \* a display and the window createNewWindow makes on it
    run         \* the number of the run, and what the run before it left

vars == <<phase, isQuitting, exitCode, devMode, promise, cp, kills, reported,
          win, store, storeUp, fatal, backends, keymap, probe, run>>

---------------------------------------------------------------------------
(* Bounds of the model *)

MaxWindows == 2     \* windows created in one run (mainWindow and the others)
MaxMessages == 2    \* messages the child sends in one run
MaxBurst == 2       \* the count of the events of a burst saturates here
MaxTimers == 2      \* pending timers of one window
MaxLayoutChanges == 2   \* keyboard-layout notifications in one run
MaxRuns == 2        \* runs of the application, one after the other
MaxOrigin == 2      \* a probed display has its origin within this of (0, 0)
MaxSpan == 5        \* and its sides within this of the least sides

Windows == 1..MaxWindows
mainWindow == 1

Ports == {7777, 8888}

\* A JavaScript property that is undefined.
Undefined == 99999
NoExit == 99998
NoPid == 0
ChildPid == 4242

Rect(x, y, w, h) == [x |-> x, y |-> y, width |-> w, height |-> h]

\* screen.getDisplayNearestPoint(...).bounds
Displays == { Rect(0, 0, 1920, 1080) }

\* The display a window with bounds b is on, whose bounds a maximized window
\* takes.
DisplayNearest(b) ==
    IF \E d \in Displays : d.x <= b.x /\ b.x < d.x + d.width
       THEN CHOOSE d \in Displays : d.x <= b.x /\ b.x < d.x + d.width
       ELSE Rect(0, 0, 1920, 1080)

\* The geometries a user gives a restored window by moving or resizing it.
UserBounds == { Rect(100, 50, 900, 700), Rect(400, 300, 640, 480) }

\* The urls carried by 'create-new-window'; "" is the empty string.
Urls == { "", "http://example/new" }

---------------------------------------------------------------------------
(* JavaScript values *)

\* obj.f, undefined when the object has no such property.
Field(obj, f) == IF f \in DOMAIN obj THEN obj[f] ELSE Undefined

\* Mutant: the test of line 148 never holds.
IsMaximizedOfNever(obj) == FALSE

\* if (obj.isMaximized): undefined is falsy.
IsMaximizedOf(obj) == IF "isMaximized" \in DOMAIN obj THEN obj.isMaximized ELSE FALSE

BoundsOf(obj) ==
    Rect(Field(obj, "x"), Field(obj, "y"), Field(obj, "width"), Field(obj, "height"))

\* {} as any
EmptyObject == [empty |-> TRUE]

\* 'file://' + this.indexHtml + '?port=' + port
IndexUrl(port) == [base |-> "file://indexHtml", query |-> "?port=", port |-> port]

\* a url loaded as it was given
PlainUrl(u) == [base |-> u, query |-> "", port |-> Undefined]

---------------------------------------------------------------------------
(* The storage service: get(key, default) and set(key, value) *)

NoRecord == [absent |-> TRUE]

\* electronStorageService.get('windowstate', default)
StoreGet(st, default) == IF st = NoRecord THEN default ELSE st

\* electronStorageService.set('windowstate', value); ok = FALSE: set throws.
StoreSet(st, value, ok) == IF ok THEN value ELSE st

\* The records an earlier run can have left under 'windowstate'.
PersistedRecords ==
    {NoRecord}
    \cup { [isMaximized |-> m, width |-> 900, height |-> 700, x |-> 100, y |-> 50] :
             m \in BOOLEAN }
    \cup { [isMaximized |-> TRUE, width |-> Undefined, height |-> Undefined,
            x |-> Undefined, y |-> Undefined] }

---------------------------------------------------------------------------
(* createNewWindow *)

\* createNewWindow() called without a url
NoUrl == "<undefined>"

minWidth == 200
minHeight == 120

\* What new BrowserWindow(options) does with an undefined width or height.
ElectronDefaultWidth == 800
ElectronDefaultHeight == 600

Max(a, b) == IF a > b THEN a ELSE b

\* Math.floor(n * (2 / 3)): the double nearest 2/3 is below 2/3 by less than
\* 2^-53, and n times it rounds back to 2n/3 when 3 divides n, so the floor
\* is that of the exact quotient for every n a display can have.
FloorTwoThirds(n) == (2 * n) \div 3

\* Mutant: the window is centered as if the origin of the display were (0, 0).
DefaultWindowStateNoOrigin(d) ==
    LET height == FloorTwoThirds(d.height)
        width == FloorTwoThirds(d.width)
        y == (d.height - height) \div 2
        x == (d.width - width) \div 2
    IN  [width |-> width, height |-> height, x |-> x, y |-> y]

\* The default passed to get('windowstate', ...): lines 121-130.
DefaultWindowState(d) ==
    LET height == FloorTwoThirds(d.height)
        width == FloorTwoThirds(d.width)
        y == d.y + ((d.height - height) \div 2)
        x == d.x + ((d.width - width) \div 2)
    IN  [width |-> width, height |-> height, x |-> x, y |-> y]

\* The bounds new BrowserWindow(windowOptions) gives the window on display d:
\* an undefined size is Electron's default one, an undefined position centers.
ConstructorBounds(o, d) ==
    LET w == IF o.width = Undefined THEN ElectronDefaultWidth ELSE Max(o.width, minWidth)
        h == IF o.height = Undefined THEN ElectronDefaultHeight ELSE Max(o.height, minHeight)
    IN  Rect(IF o.x = Undefined THEN d.x + ((d.width - w) \div 2) ELSE o.x,
             IF o.y = Undefined THEN d.y + ((d.height - h) \div 2) ELSE o.y,
             w, h)

\* A window that was not created yet.
NoWindow ==
    [status |-> "none", visible |-> FALSE, shown |-> FALSE, isMaximized |-> FALSE,
     bounds |-> Rect(0, 0, 0, 0), normalBounds |-> Rect(0, 0, 0, 0), loads |-> <<>>,
     delayedSaveTimeout |-> FALSE, timers |-> 0,
     burst |-> 0, toggle |-> "none", preStore |-> Rect(0, 0, 0, 0)]

\* newWindow.maximize() on the window just constructed (line 149).  Electron
\* documents that maximize() also shows a window that is not displayed; not
\* every platform does, so the outcome is the parameter shows.  The resize
\* event of this maximize comes before line 191 registers its listener.
MaximizeNew(wr, shows) ==
    [wr EXCEPT !.isMaximized = TRUE,
               !.bounds = DisplayNearest(wr.normalBounds),
               !.visible = shows]

\* createNewWindow(theUrl): the window it returns.  st is the store, d the
\* display nearest the cursor.
createNewWindow(theUrl, st, d, shows) ==
    LET windowState == StoreGet(st, DefaultWindowState(d))
        created == ConstructorBounds(BoundsOf(windowState), d)
        newWindow == [NoWindow EXCEPT !.status = "open",
                                      !.visible = FALSE,
                                      !.bounds = created,
                                      !.normalBounds = created]
        sized == IF IsMaximizedOf(windowState)
                    THEN MaximizeNew(newWindow, shows)
                    ELSE newWindow
    IN  IF theUrl \notin {NoUrl, ""}
           THEN [sized EXCEPT !.loads = <<PlainUrl(theUrl)>>]
           ELSE sized

---------------------------------------------------------------------------
(* createNewWindow on any display *)

\* The least sides of a display on which the default size, two thirds of
\* the display, is not below minWidth by minHeight.
MinDisplayWidth == 300
MinDisplayHeight == 180

\* The bounds screen.getDisplayNearestPoint(...) can return (line 121).
ProbeDisplays ==
    { Rect(x, y, w, h) : x \in -MaxOrigin..MaxOrigin, y \in -MaxOrigin..MaxOrigin,
                         w \in MinDisplayWidth..(MinDisplayWidth + MaxSpan),
                         h \in MinDisplayHeight..(MinDisplayHeight + MaxSpan) }

NoProbe == [display |-> Rect(0, 0, 1920, 1080), window |-> NoWindow]

\* createNewWindow() is called while the display nearest the cursor is
\* probe.display.
CreateOnDisplay ==
    /\ probe.window.status = "none"
    /\ \E shows \in BOOLEAN :
          probe' = [probe EXCEPT !.window = createNewWindow(NoUrl, store, probe.display, shows)]
    /\ UNCHANGED <<phase, isQuitting, exitCode, devMode, backends, keymap, run, promise,
                   cp, kills, reported, win, store, storeUp, fatal>>

---------------------------------------------------------------------------
(* Saving the window state *)

\* Mutant: the test of isMaximized() is inverted.
saveWindowStateInverted(wr, st, ok) ==
    IF wr.status = "destroyed"
       THEN st
       ELSE LET bounds == IF ~wr.isMaximized
                             THEN BoundsOf(StoreGet(st, EmptyObject))
                             ELSE wr.bounds
            IN  StoreSet(st, [isMaximized |-> wr.isMaximized,
                              width |-> bounds.width,
                              height |-> bounds.height,
                              x |-> bounds.x,
                              y |-> bounds.y], ok)

\* Mutant: the record is removed before it is set, so that a set() that
\* throws leaves none.
saveWindowStateRemovesFirst(wr, st, ok) ==
    IF wr.status = "destroyed"
       THEN st
       ELSE LET bounds == IF wr.isMaximized
                             THEN BoundsOf(StoreGet(st, EmptyObject))
                             ELSE wr.bounds
            IN  StoreSet(NoRecord, [isMaximized |-> wr.isMaximized,
                                    width |-> bounds.width,
                                    height |-> bounds.height,
                                    x |-> bounds.x,
                                    y |-> bounds.y], ok)

\* Mutant: the bounds are always those of getBounds().
saveWindowStateOsBounds(wr, st, ok) ==
    IF wr.status = "destroyed"
       THEN st
       ELSE StoreSet(st, [isMaximized |-> wr.isMaximized,
                          width |-> wr.bounds.width,
                          height |-> wr.bounds.height,
                          x |-> wr.bounds.x,
                          y |-> wr.bounds.y], ok)

\* Mutant: isMaximized() and getBounds() answer for a destroyed window, with
\* what the window last was.
saveWindowStateNoThrow(wr, st, ok) ==
    LET bounds == IF wr.isMaximized
                     THEN BoundsOf(StoreGet(st, EmptyObject))
                     ELSE wr.bounds
    IN  StoreSet(st, [isMaximized |-> wr.isMaximized,
                      width |-> bounds.width,
                      height |-> bounds.height,
                      x |-> bounds.x,
                      y |-> bounds.y], ok)

\* saveWindowState (lines 161-181) run for window record wr: the new value of
\* the store.  isMaximized() throws on a destroyed window and set() may throw
\* (ok = FALSE); both are caught at line 178 and nothing is written.
saveWindowState(wr, st, ok) ==
    IF wr.status = "destroyed"
       THEN st
       ELSE LET bounds == IF wr.isMaximized
                             THEN BoundsOf(StoreGet(st, EmptyObject))
                             ELSE wr.bounds
            IN  StoreSet(st, [isMaximized |-> wr.isMaximized,
                              width |-> bounds.width,
                              height |-> bounds.height,
                              x |-> bounds.x,
                              y |-> bounds.y], ok)

\* Mutant: the pending timer is not cleared.
saveWindowStateDelayedNoClear(wr) ==
    [wr EXCEPT !.timers = wr.timers + 1, !.delayedSaveTimeout = TRUE]

\* saveWindowStateDelayed (lines 184-189).  wr.timers counts the pending
\* timers of the window and wr.delayedSaveTimeout tells whether the timer
\* the variable names is one of them: clearTimeout removes that one and does
\* nothing for a handle that is unset or has fired.  Then a new timer is set.
saveWindowStateDelayed(wr) ==
    LET cleared == IF wr.delayedSaveTimeout THEN wr.timers - 1 ELSE wr.timers
    IN  [wr EXCEPT !.timers = cleared + 1, !.delayedSaveTimeout = TRUE]

Min(a, b) == IF a < b THEN a ELSE b

\* Mutant: 'close' is given the debounced save, whose timer the closing of
\* the window leaves behind.
OnCloseDelayed(wr, st, ok) == st

\* The listener of 'close', line 190: saveWindowState itself.
OnClose(wr, st, ok) == saveWindowState(wr, st, ok)

\* History of a burst: the number of events since no timer was pending,
\* counted up to MaxBurst.
NoteEvent(old, new) ==
    [new EXCEPT !.burst = IF old.timers = 0 THEN 1 ELSE Min(old.burst + 1, MaxBurst)]

---------------------------------------------------------------------------
(* The keyboard layout: lines 194-203 *)

\* The layouts the native keymap service can report.
Layouts == {"us", "de"}

\* nativeKeymapService.getKeyMap() while the layout is l.
KeyMap(l) == <<"keymap", l>>

\* const newLayout, lines 197-200, while the current layout is l.
NewLayout(l) == [info |-> l, mapping |-> KeyMap(l)]

NoKeymap ==
    [layout |-> "us", changes |-> 0, sent |-> [v \in Windows |-> <<>>], thrown |-> FALSE]

\* Mutant: the listener does not test isDestroyed().
OnDidChangeKeyboardLayoutNoTest(wr, sent, l) ==
    Append(sent, NewLayout(l))

\* The listener createNewWindow registers for its window (lines 195-203),
\* called while the current layout is l: what was sent to the window so far,
\* and after it.
OnDidChangeKeyboardLayout(wr, sent, l) ==
    IF wr.status # "destroyed"
       THEN Append(sent, NewLayout(l))
       ELSE sent

---------------------------------------------------------------------------
(* Quitting *)

NoChild == [called |-> FALSE, pid |-> NoPid, alive |-> FALSE, sent |-> 0]

AllClosed(wins) == \A v \in Windows : wins[v].status # "open"

\* A window after it was closed or destroyed.  Its timer, if one is pending,
\* stays: nothing clears delayedSaveTimeout when the window goes.  The record
\* keeps what the window last was (isMaximized, bounds) and what it loaded;
\* the history of its toggles ends, and that of its burst when no timer of
\* the burst is pending.
Destroyed(wr) ==
    IF wr.status = "open"
       THEN [wr EXCEPT !.status = "destroyed", !.visible = FALSE,
                       !.normalBounds = Rect(0, 0, 0, 0),
                       !.burst = IF wr.timers > 0 THEN wr.burst ELSE 0,
                       !.toggle = "none", !.preStore = Rect(0, 0, 0, 0)]
       ELSE wr

\* The listener of 'quit' (lines 108-112); it exists in child-process mode only.
OnQuit ==
    IF devMode
       THEN UNCHANGED <<kills, cp>>
       ELSE /\ kills' = Append(kills, cp.pid)
            /\ cp' = [cp EXCEPT !.alive = FALSE]

\* Electron emits 'quit' once, when the application is quitting, and the
\* process ends with the exit code.
EmitQuit(code) ==
    /\ OnQuit
    /\ phase' = "exited"
    /\ exitCode' = code

\* app.quit(): Electron asks every window to close and, once none is open,
\* emits 'quit'.
AppQuit(wins) ==
    /\ isQuitting' = TRUE
    /\ IF AllClosed(wins)
          THEN EmitQuit(0)
          ELSE UNCHANGED <<phase, exitCode, kills, cp>>

\* Mutant: the listener of 'window-all-closed' kills the child itself before
\* it quits, and the listener of 'quit' kills it again.
OnWindowAllClosedKills(wins) ==
    /\ isQuitting' = TRUE
    /\ phase' = "exited"
    /\ exitCode' = 0
    /\ kills' = IF devMode THEN kills ELSE Append(Append(kills, cp.pid), cp.pid)
    /\ cp' = IF devMode THEN cp ELSE [cp EXCEPT !.alive = FALSE]

\* The listener of 'window-all-closed' (lines 66-68).
OnWindowAllClosed(wins) == AppQuit(wins)

\* app.exit(code): Electron destroys every window without a 'close' event,
\* emits 'quit' and ends the process with the code.
AppExit(code) ==
    /\ win' = [v \in Windows |-> Destroyed(win[v])]
    /\ isQuitting' = TRUE
    /\ EmitQuit(code)

---------------------------------------------------------------------------
(* Runs of the application *)

\* run.n numbers the run.  The rest is history: the primary window as the
\* run before left it, the record that run left under 'windowstate', and
\* whether the application ended by closing its windows with a store that
\* could write.
FirstRun == [n |-> 1, main |-> NoWindow, record |-> NoRecord, flushed |-> FALSE]

---------------------------------------------------------------------------
(* The state after construction: onStart has registered ready() *)

Init ==
    /\ phase = "bootstrapping"
    /\ isQuitting = FALSE
    /\ exitCode = NoExit
    /\ devMode \in BOOLEAN
    /\ promise = "none"
    /\ cp = NoChild
    /\ kills = <<>>
    /\ reported = <<>>
    /\ win = [v \in Windows |-> NoWindow]
    /\ store \in PersistedRecords
    /\ storeUp = TRUE
    /\ fatal = ""
    /\ backends = 0
    /\ keymap = NoKeymap
    /\ probe = NoProbe
    /\ run = FirstRun

---------------------------------------------------------------------------
(* ready(app), lines 58-114 *)

\* fork(this.mainPath, ...): the child, or no pid when it cannot be spawned
\* (Node then emits 'error' on cp).
Fork(spawned) ==
    IF spawned
       THEN [called |-> TRUE, pid |-> ChildPid, alive |-> TRUE, sent |-> 0]
       ELSE [called |-> TRUE, pid |-> NoPid, alive |-> FALSE, sent |-> 0]

Ready ==
    /\ phase = "bootstrapping"
    /\ phase' = "running"
    /\ \E d \in Displays, shows \in BOOLEAN :
          win' = [win EXCEPT ![mainWindow] = createNewWindow(NoUrl, store, d, shows)]
    /\ backends' = backends + 1
    /\ IF devMode
          THEN /\ promise' = "pending"
               /\ UNCHANGED cp
          ELSE /\ \E spawned \in BOOLEAN : cp' = Fork(spawned)
               /\ UNCHANGED promise
    /\ UNCHANGED <<isQuitting, exitCode, devMode, keymap, probe, run,
                   kills, reported, store, storeUp, fatal>>

\* Mutant: the url is built without the port.
loadMainWindowNoPort(wr, port) ==
    IF wr.status # "destroyed"
       THEN [wr EXCEPT !.loads = Append(@, PlainUrl("file://indexHtml"))]
       ELSE wr

\* Mutant: isDestroyed() is not tested.
loadMainWindowNoTest(wr, port) ==
    [wr EXCEPT !.loads = Append(@, IndexUrl(port))]

\* loadMainWindow(port), lines 82-86, on the record of mainWindow.
loadMainWindow(wr, port) ==
    IF wr.status # "destroyed"
       THEN [wr EXCEPT !.loads = Append(@, IndexUrl(port))]
       ELSE wr

\* require(this.mainPath).then(...), lines 92-93: the promise resolves with
\* an address whose port is p.
PromiseFulfilled(p) ==
    /\ phase = "running"
    /\ devMode
    /\ promise = "pending"
    /\ promise' = "fulfilled"
    /\ reported' = Append(reported, p)
    /\ win' = [win EXCEPT ![mainWindow] = loadMainWindow(@, p)]
    /\ UNCHANGED <<phase, isQuitting, exitCode, devMode, backends, keymap, probe, run,
                   cp, kills, store, storeUp, fatal>>

\* .catch(...), lines 94-97.
PromiseRejected ==
    /\ phase = "running"
    /\ devMode
    /\ promise = "pending"
    /\ promise' = "rejected"
    /\ fatal' = "startup"
    /\ AppExit(1)
    /\ UNCHANGED <<devMode, backends, keymap, probe, run,
                   reported, store, storeUp>>

\* The listener of cp 'message', lines 101-103.
OnMessage(message) ==
    win' = [win EXCEPT ![mainWindow] = loadMainWindow(@, message)]

\* The child sends a message.
ChildMessage(message) ==
    /\ phase = "running"
    /\ ~devMode
    /\ cp.alive
    /\ cp.sent < MaxMessages
    /\ cp' = [cp EXCEPT !.sent = @ + 1]
    /\ reported' = Append(reported, message)
    /\ OnMessage(message)
    /\ UNCHANGED <<phase, isQuitting, exitCode, devMode, backends, keymap, probe, run,
                   promise, kills, store, storeUp, fatal>>

\* Mutant: the listener logs the error and goes on.
OnErrorLogsOnly == UNCHANGED <<win, isQuitting, phase, exitCode, kills, cp>>

\* Mutant: the listener ends the process at once, with process.exit(1), so
\* that Electron emits no 'quit'.
OnErrorProcessExit ==
    /\ win' = [v \in Windows |-> Destroyed(win[v])]
    /\ isQuitting' = TRUE
    /\ phase' = "exited"
    /\ exitCode' = 1
    /\ UNCHANGED <<kills, cp>>

\* The listener of cp 'error', lines 104-107.
OnError == AppExit(1)

\* Node emits 'error' on cp: the child could not be spawned, or a later
\* operation on it failed.
ChildError ==
    /\ phase = "running"
    /\ ~devMode
    /\ cp.called
    /\ fatal' = IF reported = <<>> THEN "startup" ELSE "late"
    /\ OnError
    /\ UNCHANGED <<devMode, backends, keymap, probe, run,
                   promise, reported, store, storeUp>>

\* The child ends by itself; nothing listens to 'exit'.
ChildExit ==
    /\ phase = "running"
    /\ ~devMode
    /\ cp.alive
    /\ cp' = [cp EXCEPT !.alive = FALSE]
    /\ UNCHANGED <<phase, isQuitting, exitCode, devMode, backends, keymap, probe, run,
                   promise, kills, reported,
                   win, store, storeUp, fatal>>

\* The user, or the system, asks the application to quit: app.quit().
UserQuit ==
    /\ phase = "running"
    /\ ~isQuitting
    /\ AppQuit(win)
    /\ UNCHANGED <<devMode, backends, keymap, probe, run,
                   promise, reported, win, store, storeUp, fatal>>

---------------------------------------------------------------------------
(* Window events *)

Created == { v \in Windows : win[v].status # "none" }

\* Mutant: the listener of 'create-new-window' starts a backend for the
\* window it creates.
CreateNewWindowForks(n) == n + 1

\* The backends started once the listener of 'create-new-window' has run,
\* n having been started before: it calls createNewWindow, which neither
\* forks nor requires anything (lines 70-72 and 116-209).
CreateNewWindowStarts(n) == n

\* The listener of ipcMain 'create-new-window', lines 70-72.  The request
\* comes from the content of an open window.
CreateNewWindowRequest(url) ==
    /\ phase = "running"
    /\ \E v \in Windows : win[v].status = "open" /\ win[v].loads # <<>>
    /\ Cardinality(Created) < MaxWindows
    /\ \E d \in Displays, shows \in BOOLEAN :
          win' = [win EXCEPT ![Cardinality(Created) + 1] =
                                 createNewWindow(url, store, d, shows)]
    /\ backends' = CreateNewWindowStarts(backends)
    /\ UNCHANGED <<phase, isQuitting, exitCode, devMode, keymap, probe, run,
                   promise, cp, kills, reported,
                   store, storeUp, fatal>>

\* The listener of 'ready-to-show', line 151: newWindow.show().  Electron
\* emits the event once, when loaded content was first rendered.
ReadyToShow(w) ==
    /\ phase = "running"
    /\ win[w].status = "open"
    /\ win[w].loads # <<>>
    /\ ~win[w].shown
    /\ win' = [win EXCEPT ![w].shown = TRUE, ![w].visible = TRUE]
    /\ UNCHANGED <<phase, isQuitting, exitCode, devMode, backends, keymap, probe, run,
                   promise, cp, kills, reported,
                   store, storeUp, fatal>>

\* The pending timers of a window are bounded by MaxTimers.
MayAddEvent(wr) == wr.timers < MaxTimers

\* The user moves or resizes a restored window to bounds b: the listener of
\* 'resize' or 'move', lines 191-192.
ResizeOrMove(w, b) ==
    /\ phase = "running"
    /\ win[w].status = "open"
    /\ win[w].visible
    /\ ~win[w].isMaximized
    /\ b # win[w].bounds
    /\ MayAddEvent(win[w])
    /\ win' = [win EXCEPT ![w] =
                  NoteEvent(@, saveWindowStateDelayed(
                      [@ EXCEPT !.bounds = b, !.normalBounds = b, !.toggle = "none",
                                !.preStore = Rect(0, 0, 0, 0)]))]
    /\ UNCHANGED <<phase, isQuitting, exitCode, devMode, backends, keymap, probe, run,
                   promise, cp, kills, reported,
                   store, storeUp, fatal>>

\* The user maximizes a window.  Its size changes, so Electron emits 'resize'
\* (line 191).
Maximize(w) ==
    /\ phase = "running"
    /\ win[w].status = "open"
    /\ win[w].visible
    /\ ~win[w].isMaximized
    /\ MayAddEvent(win[w])
    /\ win' = [win EXCEPT ![w] =
                  NoteEvent(@, saveWindowStateDelayed(
                      [@ EXCEPT !.isMaximized = TRUE,
                                !.bounds = DisplayNearest(win[w].normalBounds),
                                !.toggle = "maximized",
                                !.preStore = BoundsOf(StoreGet(store, EmptyObject))]))]
    /\ UNCHANGED <<phase, isQuitting, exitCode, devMode, backends, keymap, probe, run,
                   promise, cp, kills, reported,
                   store, storeUp, fatal>>

\* The user restores a maximized window: it takes back the bounds it had
\* before it was maximized, and Electron emits 'resize' (line 191).
Restore(w) ==
    /\ phase = "running"
    /\ win[w].status = "open"
    /\ win[w].visible
    /\ win[w].isMaximized
    /\ MayAddEvent(win[w])
    /\ win' = [win EXCEPT ![w] =
                  NoteEvent(@, saveWindowStateDelayed(
                      [@ EXCEPT !.isMaximized = FALSE, !.bounds = win[w].normalBounds,
                                !.toggle = IF @ = "maximized" THEN "restored" ELSE "none",
                                !.preStore = IF win[w].toggle = "maximized"
                                                THEN @ ELSE Rect(0, 0, 0, 0)]))]
    /\ UNCHANGED <<phase, isQuitting, exitCode, devMode, backends, keymap, probe, run,
                   promise, cp, kills, reported,
                   store, storeUp, fatal>>

\* A timer set at line 188 fires: saveWindowState runs, also when the window
\* was destroyed meanwhile.  The oldest pending timer fires first.
TimerFires(w) ==
    /\ phase = "running"
    /\ win[w].timers > 0
    /\ store' = saveWindowState(win[w], store, storeUp)
    /\ win' = [win EXCEPT ![w].timers = @ - 1,
                          ![w].delayedSaveTimeout = @ /\ win[w].timers > 1]
    /\ UNCHANGED <<phase, isQuitting, exitCode, devMode, backends, keymap, probe, run,
                   promise, cp, kills, reported, storeUp, fatal>>

\* The window is closed, by the user or because the application is quitting:
\* the listener of 'close', line 190, then the window is destroyed.  When it
\* was the last one, Electron emits 'window-all-closed', unless the
\* application is quitting already, in which case it goes on to 'quit'.
Close(w) ==
    /\ phase = "running"
    /\ win[w].status = "open"
    /\ store' = OnClose(win[w], store, storeUp)
    /\ win' = [win EXCEPT ![w] = Destroyed(@)]
    /\ IF AllClosed(win')
          THEN IF isQuitting
                  THEN EmitQuit(0) /\ UNCHANGED isQuitting
                  ELSE OnWindowAllClosed(win')
          ELSE UNCHANGED <<phase, isQuitting, exitCode, kills, cp>>
    /\ UNCHANGED <<devMode, backends, keymap, probe, run,
                   promise, reported, storeUp, fatal>>

\* The storage service becomes unable to write (its file cannot be written),
\* or able again.
StoreAvailability ==
    /\ phase = "running"
    /\ storeUp' = ~storeUp
    /\ UNCHANGED <<phase, isQuitting, exitCode, devMode, backends, keymap, probe, run,
                   promise, cp, kills, reported,
                   win, store, fatal>>

\* The native keymap service fires onDidChangeKeyboardLayout: the layout is
\* now l.  It calls every listener once; each createNewWindow has registered
\* one, and nothing removes it when its window goes.  webContents.send on a
\* destroyed window throws.
KeyboardLayoutChanged(l) ==
    /\ phase = "running"
    /\ keymap.changes < MaxLayoutChanges
    /\ LET sent == [v \in Windows |->
                       IF win[v].status = "none"
                          THEN keymap.sent[v]
                          ELSE OnDidChangeKeyboardLayout(win[v], keymap.sent[v], l)]
       IN  keymap' = [layout |-> l,
                      changes |-> keymap.changes + 1,
                      sent |-> sent,
                      thrown |-> \/ keymap.thrown
                                 \/ \E v \in Windows : /\ win[v].status = "destroyed"
                                                       /\ sent[v] # keymap.sent[v]]
    /\ UNCHANGED <<phase, isQuitting, exitCode, devMode, backends, probe, run, promise,
                   cp, kills, reported, win, store, storeUp, fatal>>

\* The application has ended and is started again: a new process, in the
\* same mode, with the storage service holding what the run before left.
\* Timers that were pending ended with the process.
Restart ==
    /\ phase = "exited"
    /\ run.n < MaxRuns
    /\ run' = [n |-> run.n + 1,
               main |-> win[mainWindow],
               record |-> store,
               flushed |-> storeUp /\ exitCode = 0]
    /\ phase' = "bootstrapping"
    /\ isQuitting' = FALSE
    /\ exitCode' = NoExit
    /\ promise' = "none"
    /\ cp' = NoChild
    /\ kills' = <<>>
    /\ reported' = <<>>
    /\ win' = [v \in Windows |-> NoWindow]
    /\ storeUp' = TRUE
    /\ fatal' = ""
    /\ backends' = 0
    /\ keymap' = NoKeymap
    /\ UNCHANGED <<devMode, store, probe>>

---------------------------------------------------------------------------

Next ==
    \/ Ready
    \/ \E p \in Ports : PromiseFulfilled(p)
    \/ PromiseRejected
    \/ \E m \in Ports : ChildMessage(m)
    \/ ChildError
    \/ ChildExit
    \/ UserQuit
    \/ \E u \in Urls : CreateNewWindowRequest(u)
    \/ \E w \in Windows : ReadyToShow(w)
    \/ \E w \in Windows, b \in UserBounds : ResizeOrMove(w, b)
    \/ \E w \in Windows : Maximize(w)
    \/ \E w \in Windows : Restore(w)
    \/ \E w \in Windows : TimerFires(w)
    \/ \E w \in Windows : Close(w)
    \/ StoreAvailability
    \/ \E l \in Layouts : KeyboardLayoutChanged(l)
    \/ CreateOnDisplay
    \/ Restart

Spec == Init /\ [][Next]_vars

\* The handshake and the lifecycle of the application, with the geometry of
\* the windows left as it was created.
NextHandshake ==
    \/ Ready
    \/ \E p \in Ports : PromiseFulfilled(p)
    \/ PromiseRejected
    \/ \E m \in Ports : ChildMessage(m)
    \/ ChildError
    \/ ChildExit
    \/ UserQuit
    \/ \E u \in Urls : CreateNewWindowRequest(u)
    \/ \E w \in Windows : ReadyToShow(w)
    \/ \E w \in Windows : Close(w)
    \/ StoreAvailability

SpecHandshake == Init /\ [][NextHandshake]_vars

\* The geometry of the windows and its persistence, with a backend started
\* in direct-invocation mode that becomes ready and does not fail.
GeometryPort == CHOOSE p \in Ports : TRUE

NextGeometry ==
    \/ Ready
    \/ PromiseFulfilled(GeometryPort)
    \/ \E u \in Urls : CreateNewWindowRequest(u)
    \/ \E w \in Windows : ReadyToShow(w)
    \/ \E w \in Windows, b \in UserBounds : ResizeOrMove(w, b)
    \/ \E w \in Windows : Maximize(w)
    \/ \E w \in Windows : Restore(w)
    \/ \E w \in Windows : TimerFires(w)
    \/ \E w \in Windows : Close(w)
    \/ StoreAvailability

InitGeometry == Init /\ devMode

SpecGeometry == InitGeometry /\ [][NextGeometry]_vars

\* The relay of the keyboard layout to the windows, with a backend started
\* in direct-invocation mode.
NextKeymap ==
    \/ Ready
    \/ PromiseFulfilled(GeometryPort)
    \/ PromiseRejected
    \/ UserQuit
    \/ \E u \in Urls : CreateNewWindowRequest(u)
    \/ \E w \in Windows : ReadyToShow(w)
    \/ \E w \in Windows : Close(w)
    \/ \E l \in Layouts : KeyboardLayoutChanged(l)

SpecKeymap == InitGeometry /\ [][NextKeymap]_vars

\* createNewWindow on every probed display, with nothing persisted.
InitCentering ==
    /\ phase = "bootstrapping"
    /\ isQuitting = FALSE
    /\ exitCode = NoExit
    /\ devMode = TRUE
    /\ promise = "none"
    /\ cp = NoChild
    /\ kills = <<>>
    /\ reported = <<>>
    /\ win = [v \in Windows |-> NoWindow]
    /\ store = NoRecord
    /\ storeUp = TRUE
    /\ fatal = ""
    /\ backends = 0
    /\ keymap = NoKeymap
    /\ probe \in { [display |-> d, window |-> NoWindow] : d \in ProbeDisplays }
    /\ run = FirstRun

NextCentering == CreateOnDisplay

SpecCentering == InitCentering /\ [][NextCentering]_vars

\* The primary window over several runs of the application.
NextDurability ==
    \/ Ready
    \/ PromiseFulfilled(GeometryPort)
    \/ \E w \in Windows : ReadyToShow(w)
    \/ \E w \in Windows, b \in UserBounds : ResizeOrMove(w, b)
    \/ \E w \in Windows : Maximize(w)
    \/ \E w \in Windows : Restore(w)
    \/ \E w \in Windows : TimerFires(w)
    \/ \E w \in Windows : Close(w)
    \/ StoreAvailability
    \/ Restart

SpecDurability == InitGeometry /\ [][NextDurability]_vars

---------------------------------------------------------------------------
(* The handshake and the end of the application: claims C1 to C5 and C10   *)
(* under SpecHandshake                                                     *)

MainLoads == win[mainWindow].loads

\* C1 (as claimed): in child-process mode only the first message of the
\* child loads the primary window, so the primary window is never loaded a
\* second time.  The listener of 'message' loads it on every message.
C1_OnlyFirstMessageLoads ==
    ~devMode => Len(MainLoads) <= 1

\* C2: in both modes, once the backend has signalled an error before any
\* readiness signal, the application has exited with status 1, the primary
\* window was never loaded, and the backend was not started again: nothing
\* was reported and the child sent nothing.
C2_StartupErrorExits ==
    fatal = "startup" =>
        /\ phase = "exited"
        /\ exitCode = 1
        /\ \A w \in Windows : win[w].status \in {"none", "destroyed"}
        /\ MainLoads = <<>>
        /\ reported = <<>>
        /\ promise \in {"none", "rejected"}
        /\ cp.sent = 0

C2_Witness ==
    /\ fatal = "startup"
    /\ exitCode = 1
    /\ win[mainWindow].status = "destroyed"

\* C3: the loads of the primary window are, in order, the index url with
\* port=p for the endpoint values p the backend reported; none is missing
\* while the primary window is alive, so there is no load before the first
\* report and no load with a port that was not reported.
C3_LoadsAreReportedPorts ==
    /\ Len(MainLoads) <= Len(reported)
    /\ \A i \in 1..Len(MainLoads) :
          /\ MainLoads[i].base = "file://indexHtml"
          /\ MainLoads[i].query = "?port="
          /\ MainLoads[i].port = reported[i]
    /\ win[mainWindow].status = "open" => Len(MainLoads) = Len(reported)

C3_Witness ==
    /\ win[mainWindow].status = "open"
    /\ Len(reported) = 2
    /\ reported[1] # reported[2]
    /\ MainLoads[2].port = reported[2]

\* C4: process.kill(cp.pid) is called at most once in a run, whatever the
\* order of the last window closing, the request to quit, and an error or
\* the end of the child.
C4_KillAtMostOnce ==
    Len(kills) <= 1

C4_Witness ==
    /\ phase = "exited"
    /\ exitCode = 0
    /\ isQuitting
    /\ \E w \in Windows \ {mainWindow} : win[w].status = "destroyed"
    /\ kills = <<ChildPid>>

\* C5: in child-process mode the application never ends with a forked child
\* that was not killed by its pid, whether it ends by the last window, by a
\* request to quit or by a fatal exit; no kill is issued while it runs, and
\* none at all in direct-invocation mode.
C5_ChildKilledOnEveryExit ==
    /\ (phase = "exited" /\ ~devMode /\ cp.pid = ChildPid) => kills = <<ChildPid>>
    /\ phase # "exited" => kills = <<>>
    /\ devMode => kills = <<>>

C5_Witness ==
    /\ phase = "exited"
    /\ fatal # ""
    /\ exitCode = 1
    /\ kills = <<ChildPid>>

\* C10 (as claimed): a window is visible only if its content has signalled
\* ready-to-show.  maximize() at line 149 shows a window created from a
\* record with isMaximized before that.
C10_VisibleOnlyAfterReadyToShow ==
    \A w \in Windows : win[w].visible => win[w].shown

---------------------------------------------------------------------------
(* The persistence of the geometry: claims C6 to C9 under SpecGeometry     *)

\* The record saveWindowState writes for maximized flag m and bounds b.
WindowStateOf(m, b) ==
    [isMaximized |-> m, width |-> b.width, height |-> b.height, x |-> b.x, y |-> b.y]

\* The bounds persisted under 'windowstate', undefined where there are none.
Persisted(st) == BoundsOf(StoreGet(st, EmptyObject))

\* A step in which saveWindowState runs for the open window w and writes.
Saves(w) ==
    /\ TimerFires(w) \/ Close(w)
    /\ win[w].status = "open"
    /\ storeUp

\* C6 (as claimed): what a save of a maximized window persists as x, y,
\* width and height is the last restored geometry of that window, and not
\* its maximized bounds.  The save persists what the store held, which is
\* nothing on a first run and another geometry when a save was pending.
C6_MaximizedSaveKeepsRestoredGeometry ==
    [][\A w \in Windows :
          Saves(w) /\ win[w].isMaximized =>
              /\ Persisted(store') = win[w].normalBounds
              /\ Persisted(store') # win[w].bounds]_vars

\* C7 (as claimed): after maximize and restore with no move or resize in
\* between, the save that follows leaves the persisted bounds equal to the
\* bounds G that were persisted before the window was maximized.
C7_RestoreKeepsPersistedBounds ==
    [][\A w \in Windows :
          (/\ TimerFires(w)
           /\ Saves(w)
           /\ win[w].toggle = "restored"
           /\ win[w].preStore.width # Undefined)
          => Persisted(store') = win[w].preStore]_vars

\* C7 (amended): after maximize and restore with no move or resize in
\* between, the save that the restore scheduled persists the bounds the
\* window itself had before it was maximized, with isMaximized false.
C7_RestorePersistsOwnBounds ==
    [][\A w \in Windows :
          (/\ TimerFires(w)
           /\ Saves(w)
           /\ win[w].toggle = "restored")
          => store' = WindowStateOf(FALSE, win[w].normalBounds)]_vars

\* The window was maximized while a save of new bounds was pending, then
\* restored, and the save has run: the persisted bounds are the window's,
\* not the ones persisted before it was maximized.
C7_Witness ==
    \E w \in Windows :
        /\ win[w].status = "open"
        /\ win[w].toggle = "restored"
        /\ win[w].timers = 0
        /\ win[w].preStore.width # Undefined
        /\ win[w].preStore # win[w].normalBounds
        /\ store = WindowStateOf(FALSE, win[w].normalBounds)

\* C8 (as claimed): the timer of a burst of resize/move events writes the
\* bounds of the last event.
C8_BurstWritesLastBounds ==
    [][\A w \in Windows :
          TimerFires(w) /\ win[w].burst >= 1 =>
              Persisted(store') = win[w].bounds]_vars

\* C8 (amended): a window never has more than one timer pending; when the
\* timer of a burst fires none is left, and that one run of saveWindowState
\* writes the bounds of the last event if the window is open, not maximized
\* and the store can write; for a maximized window it writes the bounds the
\* store held, with isMaximized true; otherwise it writes nothing.
C8_DebounceOneRun ==
    [][/\ \A w \in Windows : win'[w].timers <= 1
       /\ \A w \in Windows :
             TimerFires(w) =>
                 /\ win'[w].timers = 0
                 /\ store' = IF win[w].status = "open" /\ storeUp
                                THEN IF win[w].isMaximized
                                        THEN WindowStateOf(TRUE, Persisted(store))
                                        ELSE WindowStateOf(FALSE, win[w].bounds)
                                ELSE store]_vars

\* A burst of MaxBurst moves or resizes, its timer has fired, and the store
\* holds the bounds of the last of them.
C8_Witness ==
    \E w \in Windows :
        /\ win[w].status = "open"
        /\ win[w].burst = MaxBurst
        /\ win[w].toggle = "none"
        /\ ~win[w].isMaximized
        /\ win[w].timers = 0
        /\ storeUp
        /\ store = WindowStateOf(FALSE, win[w].bounds)

\* What the claim says the record is after window w closes.
HoldsStateOf(st, wr) ==
    /\ "isMaximized" \in DOMAIN st
    /\ st.isMaximized = wr.isMaximized
    /\ ~wr.isMaximized => BoundsOf(st) = wr.bounds

\* C9 (as claimed): right after the close event the record holds the
\* maximized flag of the closing window and, if it was not maximized, its
\* bounds.
C9_CloseAlwaysPersists ==
    [][\A w \in Windows : Close(w) => HoldsStateOf(store', win[w])]_vars

\* C9 (amended): the same, unless set() throws, in which case the record is
\* left as it was.
C9_CloseFlushes ==
    [][\A w \in Windows :
          Close(w) => IF storeUp
                         THEN HoldsStateOf(store', win[w])
                         ELSE store' = store]_vars

\* A window closed while its debounced save was pending, another window is
\* still open, and the record holds the closed window's bounds.
C9_Witness ==
    \E w \in Windows :
        /\ phase = "running"
        /\ win[w].status = "destroyed"
        /\ win[w].timers = 1
        /\ ~win[w].isMaximized
        /\ store = WindowStateOf(FALSE, win[w].bounds)

---------------------------------------------------------------------------
(* The relay of the keyboard layout: claim C11 under SpecKeymap            *)

\* C11: on each notification of a keyboard-layout change, every window that
\* is open at that time is sent exactly one keyboardLayoutChanged message,
\* carrying the layout that is now current and its key map; a window that
\* was destroyed before the notification is sent nothing, and no listener
\* throws; a step that is not a notification sends nothing.
C11_LayoutRelayedToLiveWindows ==
    [][/\ \A l \in Layouts :
             KeyboardLayoutChanged(l) =>
                 /\ \A w \in Windows :
                        keymap'.sent[w] =
                            IF win[w].status = "open"
                               THEN Append(keymap.sent[w],
                                           [info |-> l, mapping |-> KeyMap(l)])
                               ELSE keymap.sent[w]
                 /\ ~keymap'.thrown
                 /\ phase' = "running"
       /\ (\A l \in Layouts : ~KeyboardLayoutChanged(l)) => keymap' = keymap]_vars

\* Two notifications with different layouts; a window other than the
\* primary one was closed between them: it holds the first message only and
\* the primary window holds both.
C11_Witness ==
    \E w \in Windows \ {mainWindow} :
        /\ phase = "running"
        /\ win[mainWindow].status = "open"
        /\ win[w].status = "destroyed"
        /\ keymap.changes = 2
        /\ Len(keymap.sent[mainWindow]) = 2
        /\ keymap.sent[mainWindow][1].info # keymap.sent[mainWindow][2].info
        /\ keymap.sent[w] = <<keymap.sent[mainWindow][1]>>

---------------------------------------------------------------------------
(* The default geometry: claim C12 under SpecCentering                     *)

Abs(n) == IF n < 0 THEN -n ELSE n

\* C12: with nothing persisted, the window created on a display with bounds
\* B = (bx, by, bw, bh) has width floor(2*bw/3) and height floor(2*bh/3),
\* its left and right margins within B differ by at most 1, likewise its top
\* and bottom margins, it lies inside B, and it is not maximized.
C12_DefaultIsCentered ==
    (probe.window.status = "open" /\ store = NoRecord) =>
        LET B == probe.display
            b == probe.window.bounds
            left == b.x - B.x
            right == B.x + B.width - b.x - b.width
            top == b.y - B.y
            bottom == B.y + B.height - b.y - b.height
        IN  /\ 3 * b.width <= 2 * B.width
            /\ 2 * B.width < 3 * (b.width + 1)
            /\ 3 * b.height <= 2 * B.height
            /\ 2 * B.height < 3 * (b.height + 1)
            /\ Abs(left - right) <= 1
            /\ Abs(top - bottom) <= 1
            /\ left >= 0 /\ right >= 0 /\ top >= 0 /\ bottom >= 0
            /\ ~probe.window.isMaximized

\* A window created on a display with a negative origin, where neither
\* two thirds of the sides nor half of the margins are whole numbers.
C12_Witness ==
    /\ probe.window.status = "open"
    /\ probe.display.x < 0
    /\ probe.display.y < 0
    /\ (2 * probe.display.width) % 3 # 0
    /\ (2 * probe.display.height) % 3 # 0
    /\ (probe.display.width - probe.window.bounds.width) % 2 = 1
    /\ (probe.display.height - probe.window.bounds.height) % 2 = 1

---------------------------------------------------------------------------
(* The geometry across runs: claim C13 under SpecDurability                *)

\* The bounds of record st that are defined are the bounds b.
Verbatim(st, b) ==
    \A f \in {"x", "y", "width", "height"} : st[f] # Undefined => b[f] = st[f]

\* The run before ended by closing its primary window while it was not
\* maximized.
ClosedRestored ==
    /\ run.n > 1
    /\ run.main.status = "destroyed"
    /\ ~run.main.isMaximized

\* C13 (as claimed): a window closed, not maximized, with bounds G, the
\* window created in the next run has bounds G.
C13_ClosedBoundsComeBack ==
    [][Ready /\ ClosedRestored => win'[mainWindow].bounds = run.main.bounds]_vars

\* C13 (amended): when a record is persisted, the window created takes the
\* bounds of the record and is maximized right after its creation exactly
\* when the record's isMaximized is true; a window closed, not maximized,
\* with bounds G while the store could write, the window created in the
\* next run has bounds G.
C13_PersistedGeometryComesBack ==
    [][Ready =>
          /\ store # NoRecord =>
                 /\ Verbatim(store, win'[mainWindow].normalBounds)
                 /\ win'[mainWindow].isMaximized = store.isMaximized
          /\ (ClosedRestored /\ run.flushed) =>
                 /\ win'[mainWindow].bounds = run.main.bounds
                 /\ ~win'[mainWindow].isMaximized]_vars

\* The second run has created its window with the bounds the user gave the
\* window of the first run before closing it.
C13_Witness ==
    /\ run.n = 2
    /\ ClosedRestored
    /\ run.flushed
    /\ win[mainWindow].status = "open"
    /\ win[mainWindow].loads = <<>>
    /\ run.main.bounds = Rect(400, 300, 640, 480)
    /\ win[mainWindow].bounds = run.main.bounds

---------------------------------------------------------------------------
(* The lifecycle and the backend: claims C15, C16, C17 and C20 under       *)
(* SpecHandshake                                                           *)

\* C15 (as claimed): once the application is shutting down, no window is
\* created and no window is loaded.  After app.quit() the windows close one
\* by one, and until the last has closed the listeners of 'message' and of
\* 'create-new-window' still load and create.
C15_NothingStartsOnceShuttingDown ==
    [][isQuitting =>
          \A w \in Windows :
              /\ win'[w].loads = win[w].loads
              /\ win[w].status = "none" => win'[w].status = "none"]_vars

\* C16 (as claimed): once the backend has reported its endpoint, no error
\* event makes the run a failed one.  The listener of 'error' calls
\* app.exit(1) whenever the event comes.
C16_ReadyIsFinal ==
    reported # <<>> => exitCode # 1

\* C17: at most one backend is started in a run: none before 'ready', one
\* by ready(), and none by the creation of any further window.
C17_OneBackend ==
    /\ backends <= 1
    /\ backends = (IF phase = "bootstrapping" THEN 0 ELSE 1)
    /\ cp.called => backends = 1 /\ ~devMode
    /\ promise # "none" => backends = 1 /\ devMode

C17_Witness ==
    /\ backends = 1
    /\ \A w \in Windows : win[w].status # "none"
    /\ \E w \in Windows \ {mainWindow} : win[w].loads # <<>>

\* C20: a readiness signal that comes when the primary window is destroyed
\* loads nothing, in the primary window or in any other, and ends nothing;
\* no window other than the primary one ever loads the index url.
C20_NoLoadIntoDestroyedWindow ==
    [][/\ (/\ \E p \in Ports : PromiseFulfilled(p) \/ ChildMessage(p)
           /\ win[mainWindow].status = "destroyed")
          => /\ win' = win
             /\ phase' = phase
             /\ exitCode' = exitCode
       /\ \A w \in Windows \ {mainWindow} :
             \A i \in 1..Len(win'[w].loads) : win'[w].loads[i].port = Undefined]_vars

\* The child reported a port again after the primary window was closed,
\* another window being open: the primary window holds its first load only.
C20_Witness ==
    /\ phase = "running"
    /\ win[mainWindow].status = "destroyed"
    /\ \E w \in Windows \ {mainWindow} : win[w].status = "open"
    /\ Len(reported) = 2
    /\ Len(MainLoads) = 1

---------------------------------------------------------------------------
(* Saves that fail and saves of a maximized window: claims C14 and C18     *)
(* under SpecDurability                                                    *)

\* C14: when set() throws in a save, on close or when a debounced save
\* fires, the record is left as it was and the application does not end
\* with an error: after the timer the application runs on and the window is
\* as it was, and a close goes on as any close does; a save of the window
\* made while the store can write persists what saveWindowState writes,
\* whatever failed before.
C14_StoreFailureIsNotFatal ==
    [][\A w \in Windows :
          /\ (TimerFires(w) /\ win[w].status = "open" /\ ~storeUp) =>
                 /\ store' = store
                 /\ phase' = "running"
                 /\ exitCode' = NoExit
                 /\ win' = [win EXCEPT ![w].timers = win'[w].timers,
                                       ![w].delayedSaveTimeout = win'[w].delayedSaveTimeout]
          /\ (Close(w) /\ ~storeUp) =>
                 /\ store' = store
                 /\ exitCode' \in {NoExit, 0}
                 /\ win'[w].status = "destroyed"
          /\ Saves(w) =>
                 store' = WindowStateOf(win[w].isMaximized,
                                        IF win[w].isMaximized
                                           THEN Persisted(store) ELSE win[w].bounds)]_vars

\* The only window of the run was moved or resized and the timer of that
\* burst has fired, yet the record does not hold the bounds of the window:
\* the save failed.  The application runs, the window is open, and the
\* store can write again.
C14_Witness ==
    /\ phase = "running"
    /\ \A w \in Windows \ {mainWindow} : win[w].status = "none"
    /\ win[mainWindow].status = "open"
    /\ ~win[mainWindow].isMaximized
    /\ win[mainWindow].toggle = "none"
    /\ win[mainWindow].burst >= 1
    /\ win[mainWindow].timers = 0
    /\ store # WindowStateOf(FALSE, win[mainWindow].bounds)
    /\ storeUp

\* C18: a save of a maximized window leaves x, y, width and height of the
\* record as they were, undefined when there was no record, and sets
\* isMaximized to true; the bounds of the window are not what it writes.
C18_MaximizedSaveKeepsStoredBounds ==
    [][\A w \in Windows :
          Saves(w) /\ win[w].isMaximized =>
              /\ Persisted(store') = Persisted(store)
              /\ store'.isMaximized
              /\ store # NoRecord => store' = [store EXCEPT !.isMaximized = TRUE]]_vars

\* The window was given bounds that were saved, then maximized, and the save
\* of the maximized window has run: the record holds the saved bounds with
\* isMaximized true, and not the bounds of the maximized window.
C18_Witness ==
    \E w \in Windows :
        /\ win[w].status = "open"
        /\ win[w].isMaximized
        /\ win[w].toggle = "maximized"
        /\ win[w].timers = 0
        /\ win[w].normalBounds = Rect(400, 300, 640, 480)
        /\ store = WindowStateOf(TRUE, win[w].normalBounds)
        /\ BoundsOf(store) # win[w].bounds

---------------------------------------------------------------------------
(* A timer that outlives its window: claim C19 under SpecGeometry          *)

\* C19: the close of a window leaves its pending timer pending; when the
\* timer of a destroyed window fires, the record stays what it was, the
\* window stays destroyed, and the application runs on.
C19_LateTimerWritesNothing ==
    [][\A w \in Windows :
          /\ Close(w) =>
                 /\ win'[w].timers = win[w].timers
                 /\ win'[w].delayedSaveTimeout = win[w].delayedSaveTimeout
          /\ (TimerFires(w) /\ win[w].status = "destroyed") =>
                 /\ store' = store
                 /\ win'[w].status = "destroyed"
                 /\ phase' = "running"
                 /\ exitCode' = NoExit]_vars

\* A window was closed while the timer of a burst was pending, the timer
\* has fired since, and the record still holds what the close persisted.
C19_Witness ==
    \E w \in Windows :
        /\ phase = "running"
        /\ win[w].status = "destroyed"
        /\ win[w].burst >= 1
        /\ win[w].timers = 0
        /\ ~win[w].isMaximized
        /\ store = WindowStateOf(FALSE, win[w].bounds)

====
